---------------------------- MODULE Spec2Model ----------------------------
(***************************************************************************)
(* LuaCSS compiler (src/lcss/lcss.js): tokenizer, recursive-descent parser,*)
(* selector resolution, rule flattening and emission.                      *)
(*                                                                         *)
(* A JavaScript string is a sequence of one-character strings; indices are *)
(* the code's 0-based indices (src[k] is s[k + 1] here).                   *)
(***************************************************************************)
EXTENDS Integers, Sequences, FiniteSets, TLC

VARIABLES
  pc,       \* "tokenize" | "parse" | "done" (compileLuaCSS), "sel" (selector calls)
  src,      \* the source text given to compileLuaCSS
  i,        \* tokenize: the character index
  tokens,   \* tokenize: the tokens pushed so far
  spans,    \* for each pushed token, the character range [from, to) it consumed
  toks,     \* Parser.tokens (whitespace and comments filtered out)
  pos,      \* Parser.pos
  errors,   \* Parser.errors
  stack,    \* the parser's call stack, innermost call last
  result,   \* what compileLuaCSS returned
  event,    \* the loop iteration, call or return the last step performed
  call      \* the last call of resolveSelector / isPseudo / pseudoSelector

vars == <<pc, src, i, tokens, spans, toks, pos, errors, stack, result, event, call>>

-----------------------------------------------------------------------------
(* Bounds of the checked inputs *)

MaxFree == 3
MaxRaw == 3
MaxHex == 2
MaxSel == 2

-----------------------------------------------------------------------------
(* Characters and strings *)

Digits == {"0", "1", "2", "3", "4", "5", "6", "7", "8", "9"}

HexDigits == Digits \cup {"a", "b", "c", "d", "e", "f", "A", "B", "C", "D", "E", "F"}

Letters ==
  {"a", "b", "c", "d", "e", "f", "g", "h", "i", "j", "k", "l", "m",
   "n", "o", "p", "q", "r", "s", "t", "u", "v", "w", "x", "y", "z",
   "A", "B", "C", "D", "E", "F", "G", "H", "I", "J", "K", "L", "M",
   "N", "O", "P", "Q", "R", "S", "T", "U", "V", "W", "X", "Y", "Z"}

\* the characters /\s/ matches, among those of the checked inputs
Whitespace == {" ", "\t", "\n", "\r"}

\* what string concatenation makes of the value undefined
UndefinedText == <<"u", "n", "d", "e", "f", "i", "n", "e", "d">>

\* the value of t?.v when there is no token t
Undef == <<"(undefined)">>

Min(a, b) == IF a < b THEN a ELSE b

Max(a, b) == IF a > b THEN a ELSE b

\* s.slice(a, b)
Slice(s, a, b) == SubSeq(s, a + 1, Min(b, Len(s)))

\* s.padStart(n, c) for a one-character c
RECURSIVE PadStart(_, _, _)
PadStart(s, n, c) == IF Len(s) >= n THEN s ELSE PadStart(<<c>> \o s, n, c)

\* key.replace(/_/g, '-')
Hyphenate(s) == [k \in 1..Len(s) |-> IF s[k] = "_" THEN "-" ELSE s[k]]

RECURSIVE TrimLeft(_)
TrimLeft(s) == IF s # <<>> /\ Head(s) \in Whitespace THEN TrimLeft(Tail(s)) ELSE s

RECURSIVE TrimRight(_)
TrimRight(s) ==
  IF s # <<>> /\ s[Len(s)] \in Whitespace THEN TrimRight(SubSeq(s, 1, Len(s) - 1)) ELSE s

\* s.trim()
Trim(s) == TrimRight(TrimLeft(s))

\* parts.join(sep)
RECURSIVE Join(_, _)
Join(parts, sep) ==
  IF parts = <<>> THEN <<>>
  ELSE IF Len(parts) = 1 THEN parts[1]
  ELSE parts[1] \o sep \o Join(Tail(parts), sep)

-----------------------------------------------------------------------------
(* Tokenizer *)

TOKEN == [COMMENT |-> "comment", STRING |-> "string", HEX |-> "hex", NUMBER |-> "number",
          IDENT |-> "ident", PUNCT |-> "punct", WS |-> "ws"]

\* ch(n): src[i + n] ?? ''
Ch(n) == IF i + n < Len(src) THEN src[i + n + 1] ELSE ""

\* while (k < src.length && <src[k] in set>) k++
RECURSIVE ScanWhile(_, _)
ScanWhile(k, set) == IF k < Len(src) /\ src[k + 1] \in set THEN ScanWhile(k + 1, set) ELSE k

\* while (k < src.length && src[k] !== '\n') k++
RECURSIVE ScanLine(_)
ScanLine(k) == IF k < Len(src) /\ src[k + 1] # "\n" THEN ScanLine(k + 1) ELSE k

\* the body of a string literal: a backslash skips itself; reading src at or
\* past src.length yields undefined, which += appends as text
RECURSIVE ScanString(_, _, _)
ScanString(k, q, v) ==
  IF k < Len(src) /\ src[k + 1] # q
  THEN LET k1 == IF src[k + 1] = "\\" THEN k + 1 ELSE k
           c  == IF k1 < Len(src) THEN <<src[k1 + 1]>> ELSE UndefinedText
       IN  ScanString(k1 + 1, q, v \o c)
  ELSE [i |-> k, v |-> v]

IsCommentStart == Ch(0) = "-" /\ Ch(1) = "-"

IsWhitespaceStart == Ch(0) \in Whitespace

IsHexStart == Ch(0) = "0" /\ Ch(1) \in {"x", "X"}

IsStringStart == Ch(0) \in {"\"", "'"}

IsNumberStart ==
  \/ Ch(0) \in Digits
  \/ (Ch(0) = "." /\ Ch(1) \in Digits)
  \/ (Ch(0) \in {"-", "+"} /\ (Ch(1) \in Digits \/ (Ch(1) = "." /\ Ch(2) \in Digits)))

IsIdentStart == Ch(0) \in Letters \cup {"_"}

Token(t, v, unit) == [t |-> t, v |-> v, unit |-> unit]

\* tokens.push(tok), the scan moving from i to k
Push(tok, k) ==
  /\ tokens' = Append(tokens, tok)
  /\ spans' = Append(spans, [from |-> i, to |-> k])
  /\ i' = k
  /\ event' = [act |-> "tokenize", kind |-> "iteration"]
  /\ UNCHANGED <<pc, src, toks, pos, errors, stack, result, call>>

Tokenizing == pc = "tokenize" /\ i < Len(src)

TokComment ==
  /\ Tokenizing /\ IsCommentStart
  /\ LET k == ScanLine(i) IN Push(Token(TOKEN.COMMENT, Slice(src, i, k), <<>>), k)

TokWhitespace ==
  /\ Tokenizing /\ ~IsCommentStart /\ IsWhitespaceStart
  /\ LET k == ScanWhile(i, Whitespace) IN Push(Token(TOKEN.WS, Slice(src, i, k), <<>>), k)

TokHex ==
  /\ Tokenizing /\ ~IsCommentStart /\ ~IsWhitespaceStart /\ IsHexStart
  /\ LET k == ScanWhile(i + 2, HexDigits) IN Push(Token(TOKEN.HEX, Slice(src, i, k), <<>>), k)

TokString ==
  /\ Tokenizing /\ ~IsCommentStart /\ ~IsWhitespaceStart /\ ~IsHexStart /\ IsStringStart
  /\ LET s == ScanString(i + 1, src[i + 1], <<>>)
     IN  Push(Token(TOKEN.STRING, s.v, <<>>), s.i + 1)

TokNumber ==
  /\ Tokenizing /\ ~IsCommentStart /\ ~IsWhitespaceStart /\ ~IsHexStart /\ ~IsStringStart
  /\ IsNumberStart
  /\ LET k0 == IF src[i + 1] \in {"-", "+"} THEN i + 1 ELSE i
         k1 == ScanWhile(k0, Digits \cup {"."})
         k2 == ScanWhile(k1, Letters \cup {"%"})
     IN  Push(Token(TOKEN.NUMBER, Slice(src, i, k1), Slice(src, k1, k2)), k2)

TokIdent ==
  /\ Tokenizing /\ ~IsCommentStart /\ ~IsWhitespaceStart /\ ~IsHexStart /\ ~IsStringStart
  /\ ~IsNumberStart /\ IsIdentStart
  /\ LET k == ScanWhile(i, Letters \cup Digits \cup {"_", "-"})
     IN  Push(Token(TOKEN.IDENT, Slice(src, i, k), <<>>), k)

TokPunct ==
  /\ Tokenizing /\ ~IsCommentStart /\ ~IsWhitespaceStart /\ ~IsHexStart /\ ~IsStringStart
  /\ ~IsNumberStart /\ ~IsIdentStart
  /\ Push(Token(TOKEN.PUNCT, <<src[i + 1]>>, <<>>), i + 1)

-----------------------------------------------------------------------------
(* Selector resolver *)

PSEUDO_CLASS ==
  {<<"h", "o", "v", "e", "r">>, <<"f", "o", "c", "u", "s">>, <<"a", "c", "t", "i", "v", "e">>, <<"v", "i", "s", "i", "t", "e", "d">>, <<"d", "i", "s", "a", "b", "l", "e", "d">>, <<"c", "h", "e", "c", "k", "e", "d">>,
   <<"p", "l", "a", "c", "e", "h", "o", "l", "d", "e", "r">>, <<"f", "i", "r", "s", "t", "_", "c", "h", "i", "l", "d">>, <<"l", "a", "s", "t", "_", "c", "h", "i", "l", "d">>, <<"n", "t", "h", "_", "c", "h", "i", "l", "d">>,
   <<"f", "i", "r", "s", "t", "_", "o", "f", "_", "t", "y", "p", "e">>, <<"l", "a", "s", "t", "_", "o", "f", "_", "t", "y", "p", "e">>, <<"f", "o", "c", "u", "s", "_", "w", "i", "t", "h", "i", "n">>, <<"f", "o", "c", "u", "s", "_", "v", "i", "s", "i", "b", "l", "e">>,
   <<"n", "o", "t">>, <<"r", "o", "o", "t">>, <<"e", "m", "p", "t", "y">>, <<"l", "i", "n", "k">>, <<"e", "n", "a", "b", "l", "e", "d">>, <<"r", "e", "a", "d", "_", "o", "n", "l", "y">>, <<"r", "e", "a", "d", "_", "w", "r", "i", "t", "e">>}

PSEUDO_ELEMENT ==
  {<<"b", "e", "f", "o", "r", "e">>, <<"a", "f", "t", "e", "r">>, <<"f", "i", "r", "s", "t", "_", "l", "i", "n", "e">>, <<"f", "i", "r", "s", "t", "_", "l", "e", "t", "t", "e", "r">>, <<"s", "e", "l", "e", "c", "t", "i", "o", "n">>, <<"p", "l", "a", "c", "e", "h", "o", "l", "d", "e", "r">>}

\* the object's own properties, as <<name, value>> pairs
PSEUDO_NAME_MAP ==
  {<<<<"f", "i", "r", "s", "t", "_", "c", "h", "i", "l", "d">>, <<"f", "i", "r", "s", "t", "-", "c", "h", "i", "l", "d">>>>,
   <<<<"l", "a", "s", "t", "_", "c", "h", "i", "l", "d">>, <<"l", "a", "s", "t", "-", "c", "h", "i", "l", "d">>>>,
   <<<<"n", "t", "h", "_", "c", "h", "i", "l", "d">>, <<"n", "t", "h", "-", "c", "h", "i", "l", "d">>>>,
   <<<<"f", "i", "r", "s", "t", "_", "o", "f", "_", "t", "y", "p", "e">>, <<"f", "i", "r", "s", "t", "-", "o", "f", "-", "t", "y", "p", "e">>>>,
   <<<<"l", "a", "s", "t", "_", "o", "f", "_", "t", "y", "p", "e">>, <<"l", "a", "s", "t", "-", "o", "f", "-", "t", "y", "p", "e">>>>,
   <<<<"f", "o", "c", "u", "s", "_", "w", "i", "t", "h", "i", "n">>, <<"f", "o", "c", "u", "s", "-", "w", "i", "t", "h", "i", "n">>>>,
   <<<<"f", "o", "c", "u", "s", "_", "v", "i", "s", "i", "b", "l", "e">>, <<"f", "o", "c", "u", "s", "-", "v", "i", "s", "i", "b", "l", "e">>>>,
   <<<<"r", "e", "a", "d", "_", "o", "n", "l", "y">>, <<"r", "e", "a", "d", "-", "o", "n", "l", "y">>>>,
   <<<<"r", "e", "a", "d", "_", "w", "r", "i", "t", "e">>, <<"r", "e", "a", "d", "-", "w", "r", "i", "t", "e">>>>,
   <<<<"f", "i", "r", "s", "t", "_", "l", "i", "n", "e">>, <<"f", "i", "r", "s", "t", "-", "l", "i", "n", "e">>>>,
   <<<<"f", "i", "r", "s", "t", "_", "l", "e", "t", "t", "e", "r">>, <<"f", "i", "r", "s", "t", "-", "l", "e", "t", "t", "e", "r">>>>}

\* names a plain object inherits from Object.prototype (those of the checked keys)
InheritedNames == {<<"c", "o", "n", "s", "t", "r", "u", "c", "t", "o", "r">>, <<"t", "o", "S", "t", "r", "i", "n", "g">>, <<"v", "a", "l", "u", "e", "O", "f">>}

\* what concatenating an inherited member (a function) to a string gives
InheritedText == <<"(function source text)">>

\* PSEUDO_NAME_MAP[name] ?? name
NameMapGet(name) ==
  IF \E e \in PSEUDO_NAME_MAP : e[1] = name
  THEN (CHOOSE e \in PSEUDO_NAME_MAP : e[1] = name)[2]
  ELSE IF name \in InheritedNames THEN InheritedText
  ELSE name

isPseudo(name) == name \in PSEUDO_CLASS \/ name \in PSEUDO_ELEMENT

\* pseudoSelector choosing the prefix by the pseudo-class set first
pseudoSelectorClassFirst(parent, name) ==
  LET cssName == NameMapGet(name)
      prefix  == IF name \in PSEUDO_CLASS THEN <<":">> ELSE <<":", ":">>
  IN  parent \o prefix \o cssName

pseudoSelector(parent, name) ==
  LET cssName == NameMapGet(name)
      prefix  == IF name \in PSEUDO_ELEMENT THEN <<":", ":">> ELSE <<":">>
  IN  parent \o prefix \o cssName

\* What String.prototype.replace puts in place of one match of /&/ found at
\* position p of str, for the replacement text repl: $$, $&, $` and $' are
\* patterns (the regular expression has no capture group, so $1.. are literal).
RECURSIVE GetSubstitution(_, _, _)
GetSubstitution(str, p, repl) ==
  IF repl = <<>> THEN <<>>
  ELSE IF Head(repl) = "$" /\ Len(repl) >= 2 /\ repl[2] \in {"$", "&", "`", "'"}
  THEN (CASE repl[2] = "$" -> <<"$">>
          [] repl[2] = "&" -> <<"&">>
          [] repl[2] = "`" -> Slice(str, 0, p)
          [] repl[2] = "'" -> Slice(str, p + 1, Len(str)))
       \o GetSubstitution(str, p, SubSeq(repl, 3, Len(repl)))
  ELSE <<Head(repl)>> \o GetSubstitution(str, p, Tail(repl))

\* str.replace(/&/g, repl), from position p on
RECURSIVE ReplaceAmp(_, _, _)
ReplaceAmp(str, p, repl) ==
  IF p >= Len(str) THEN <<>>
  ELSE (IF str[p + 1] = "&" THEN GetSubstitution(str, p, repl) ELSE <<str[p + 1]>>)
       \o ReplaceAmp(str, p + 1, repl)

Includes(s, c) == \E k \in 1..Len(s) : s[k] = c

resolveSelector(parent, child) ==
  IF Includes(child, "&") THEN ReplaceAmp(child, 0, parent)
  ELSE IF child # <<>> /\ Head(child) = ":" THEN parent \o child
  ELSE parent \o <<" ">> \o child

-----------------------------------------------------------------------------
(* Numbers: Number(text), +text and their text, for the texts the checked     *)
(* inputs contain: an optional sign and digits with at most one ".", or 0x   *)
(* and hexadecimal digits.  A number is [nan, neg, n, k], standing for        *)
(* n / 10^k, negated when neg.                                               *)

NaN == [nan |-> TRUE, neg |-> FALSE, n |-> 0, k |-> 0]

RECURSIVE Pow10(_)
Pow10(k) == IF k = 0 THEN 1 ELSE 10 * Pow10(k - 1)

DigitValue(c) ==
  CASE c \in {"0"} -> 0 [] c = "1" -> 1 [] c = "2" -> 2 [] c = "3" -> 3 [] c = "4" -> 4
    [] c = "5" -> 5 [] c = "6" -> 6 [] c = "7" -> 7 [] c = "8" -> 8 [] c = "9" -> 9
    [] c \in {"a", "A"} -> 10 [] c \in {"b", "B"} -> 11 [] c \in {"c", "C"} -> 12
    [] c \in {"d", "D"} -> 13 [] c \in {"e", "E"} -> 14 [] c \in {"f", "F"} -> 15

RECURSIVE DigitsValue(_, _, _)
DigitsValue(s, base, acc) ==
  IF s = <<>> THEN acc ELSE DigitsValue(Tail(s), base, acc * base + DigitValue(Head(s)))

ToNumber(text) ==
  LET t    == Trim(text)
      sgn  == t # <<>> /\ Head(t) \in {"+", "-"}
      body == IF sgn THEN Tail(t) ELSE t
      dots == {d \in 1..Len(body) : body[d] = "."}
      dot  == IF dots = {} THEN Len(body) + 1 ELSE CHOOSE d \in dots : TRUE
      int  == SubSeq(body, 1, dot - 1)
      frac == SubSeq(body, dot + 1, Len(body))
  IN  IF t = <<>> THEN [nan |-> FALSE, neg |-> FALSE, n |-> 0, k |-> 0]
      ELSE IF Len(t) > 2 /\ t[1] = "0" /\ t[2] \in {"x", "X"}
              /\ \A d \in 3..Len(t) : t[d] \in HexDigits
      THEN [nan |-> FALSE, neg |-> FALSE, n |-> DigitsValue(SubSeq(t, 3, Len(t)), 16, 0), k |-> 0]
      ELSE IF /\ \A d \in 1..Len(body) : body[d] \in Digits \cup {"."}
              /\ Cardinality(dots) <= 1
              /\ Len(int) + Len(frac) >= 1
      THEN [nan |-> FALSE, neg |-> sgn /\ Head(t) = "-",
            n |-> DigitsValue(int \o frac, 10, 0), k |-> Len(frac)]
      ELSE NaN

DigitChar(d) ==
  CASE d = 0 -> "0" [] d = 1 -> "1" [] d = 2 -> "2" [] d = 3 -> "3" [] d = 4 -> "4"
    [] d = 5 -> "5" [] d = 6 -> "6" [] d = 7 -> "7" [] d = 8 -> "8" [] d = 9 -> "9"

RECURSIVE NatText(_)
NatText(n) == IF n < 10 THEN <<DigitChar(n)>> ELSE NatText(n \div 10) \o <<DigitChar(n % 10)>>

\* the number without the trailing zeros of its fraction
RECURSIVE Reduced(_)
Reduced(x) ==
  IF x.k > 0 /\ x.n % 10 = 0 THEN Reduced([x EXCEPT !.n = @ \div 10, !.k = @ - 1]) ELSE x

\* String(x)
NumberText(x) ==
  LET r == Reduced(x)
  IN  IF x.nan THEN <<"N", "a", "N">>
      ELSE IF r.n = 0 THEN <<"0">>
      ELSE (IF r.neg THEN <<"-">> ELSE <<>>)
           \o NatText(r.n \div Pow10(r.k))
           \o (IF r.k > 0 THEN <<".">> \o PadStart(NatText(r.n % Pow10(r.k)), r.k, "0") ELSE <<>>)

\* String(Math.round((x || 0) * 255))
Round255Text(x) ==
  LET num == (IF x.neg THEN 0 - x.n ELSE x.n) * 255 * 2 + Pow10(x.k)
      den == 2 * Pow10(x.k)
      r   == IF num >= 0 THEN num \div den ELSE 0 - ((den - 1 - num) \div den)
  IN  IF x.nan THEN <<"0">>
      ELSE IF r < 0 THEN <<"-">> \o NatText(0 - r) ELSE NatText(r)

-----------------------------------------------------------------------------
(* Parser: token access.  A cursor c is [pos, errors], the two fields of the *)
(* Parser a method changes.                                                  *)

NoTok == [t |-> "none", v |-> Undef, unit |-> <<>>]

Null == <<"(null)">>

\* this.tokens[p]
Peek(p) == IF p >= 0 /\ p < Len(toks) THEN toks[p + 1] ELSE NoTok

eof(p) == p >= Len(toks)

Cur == [pos |-> pos, errors |-> errors]

eat(c) == [c EXCEPT !.pos = @ + 1]

expect(c, val) ==
  LET t == Peek(c.pos)
  IN  IF t = NoTok \/ t.v # val
      THEN [c EXCEPT !.errors =
              Append(@, [msg |-> "Expected", val |-> val,
                         got |-> IF t = NoTok THEN <<"E", "O", "F">> ELSE t.v, pos |-> c.pos])]
      ELSE eat(c)

\* if (this.peek()?.v === val) this.eat()
eatIf(c, val) == IF Peek(c.pos).v = val THEN eat(c) ELSE c

tokenToValuePiece(t) ==
  IF t = NoTok THEN <<>>
  ELSE IF t.t = TOKEN.STRING THEN <<"\"">> \o t.v \o <<"\"">>
  ELSE IF t.t = TOKEN.NUMBER THEN t.v \o t.unit
  ELSE IF t.t = TOKEN.HEX THEN <<"#">> \o PadStart(Slice(t.v, 2, Len(t.v)), 6, "0")
  ELSE t.v

ZeroDepth == [paren |-> 0, brack |-> 0, brace |-> 0]

shouldStopValue(p, depth) ==
  LET t == Peek(p)
  IN  IF t = NoTok THEN TRUE
      ELSE IF depth.paren = 0 /\ depth.brack = 0 /\ depth.brace = 0
      THEN IF t.v = <<",">> \/ t.v = <<"}">> \/ t.v = <<"e", "n", "d">> THEN TRUE
           ELSE t.t = TOKEN.IDENT /\ Peek(p + 1).v = <<"=">>
      ELSE FALSE

WordLike(t) == t.t \in {TOKEN.IDENT, TOKEN.NUMBER, TOKEN.STRING, TOKEN.HEX}

EndsWithSpace(s) == s # <<>> /\ s[Len(s)] = " "

\* one iteration of parseValue's loop at position p: the frame's val, depth and prev after it
ValueIteration(fr, p) ==
  LET n     == Peek(p)
      piece == tokenToValuePiece(n)
      prev  == fr.prev
      prevPiece == IF prev # NoTok THEN tokenToValuePiece(prev) ELSE <<>>
      next  == Peek(p + 1)
      nextIsWordLike == WordLike(n)
      prevIsWordLike == prev # NoTok /\ WordLike(prev)
      nextTokenIsWordLike == next # NoTok /\ WordLike(next)
      prevCanMath == prev # NoTok /\ (prevIsWordLike \/ prevPiece = <<")">> \/ prevPiece = <<"]">>)
      nextCanMath == next # NoTok /\ (nextTokenIsWordLike \/ next.v = <<"(">>)
      isMathOperator == piece \in {<<"+">>, <<"-">>} /\ prevCanMath /\ nextCanMath
      needsSpace == prev # NoTok /\ ((prevIsWordLike /\ nextIsWordLike)
                                     \/ (prevPiece = <<")">> /\ nextIsWordLike))
      val == IF isMathOperator
             THEN (IF fr.val # <<>> /\ ~EndsWithSpace(fr.val) THEN fr.val \o <<" ">> ELSE fr.val)
                  \o piece
                  \o (IF next # NoTok /\ next.v \notin {<<")">>, <<",">>, <<"}">>, <<"e", "n", "d">>}
                      THEN <<" ">> ELSE <<>>)
             ELSE (IF needsSpace THEN fr.val \o <<" ">> ELSE fr.val) \o piece
      d == fr.depth
      depth == IF n.v = <<"(">> THEN [d EXCEPT !.paren = @ + 1]
               ELSE IF n.v = <<")">> THEN [d EXCEPT !.paren = Max(0, @ - 1)]
               ELSE IF n.v = <<"[">> THEN [d EXCEPT !.brack = @ + 1]
               ELSE IF n.v = <<"]">> THEN [d EXCEPT !.brack = Max(0, @ - 1)]
               ELSE IF n.v = <<"{">> THEN [d EXCEPT !.brace = @ + 1]
               ELSE IF n.v = <<"}">> THEN [d EXCEPT !.brace = Max(0, @ - 1)]
               ELSE d
  IN  [fr EXCEPT !.val = val, !.depth = depth, !.prev = n]

\* how parseValue begins at position p: "none" and "empty" return '' at once,
\* "color" goes to parseColor, "loop" to the general loop
ValueEntry(p) ==
  LET t == Peek(p)
  IN  IF t = NoTok THEN "none"
      ELSE IF t.t = TOKEN.IDENT /\ t.v = <<"c", "o", "l", "o", "r">> /\ Peek(p + 1).v = <<".">> THEN "color"
      ELSE IF t.t = TOKEN.IDENT /\ (Peek(p + 1).v = <<"=">> \/ Peek(p + 1).v = <<"{">>) THEN "empty"
      ELSE IF t.t = TOKEN.IDENT /\ (t.v = <<"e", "n", "d">> \/ t.v = <<"f", "u", "n", "c", "t", "i", "o", "n">>) THEN "empty"
      ELSE "loop"

\* an argument of a color function: a string, or Number(t.v) for a number token
ColorArg(t) ==
  IF t.t = TOKEN.NUMBER THEN [num |-> TRUE, x |-> ToNumber(t.v), s |-> <<>>]
  ELSE [num |-> FALSE, x |-> NaN, s |-> t.v]

\* String(arg)
ArgText(a) == IF a.num THEN NumberText(a.x) ELSE a.s

\* `${args[k]}`, k counted from 0
ArgAt(args, k) == IF k < Len(args) THEN ArgText(args[k + 1]) ELSE UndefinedText

\* +args[k] || 0
ArgNumber(args, k) ==
  IF k >= Len(args) THEN NaN
  ELSE IF args[k + 1].num THEN args[k + 1].x ELSE ToNumber(args[k + 1].s)

ArgTexts(args, n) == [k \in 1..Min(n, Len(args)) |-> ArgText(args[k])]

KnownColor == {<<"h", "e", "x">>, <<"r", "g", "b">>, <<"r", "g", "b", "a">>, <<"h", "s", "l">>, <<"h", "s", "l", "a">>, <<"c", "o", "l", "o", "r", "3">>}

\* the switch of parseColor
ColorValue(fn, args) ==
  IF fn = <<"h", "e", "x">>
  THEN LET raw == IF args = <<>> THEN <<"0", "0", "0", "0", "0", "0">> ELSE ArgText(args[1])
       IN  IF raw # <<>> /\ Head(raw) = "#" THEN raw ELSE <<"#">> \o raw
  ELSE IF fn = <<"r", "g", "b">> THEN <<"r", "g", "b", "(">> \o Join(ArgTexts(args, 3), <<",", " ">>) \o <<")">>
  ELSE IF fn = <<"r", "g", "b", "a">> THEN <<"r", "g", "b", "a", "(">> \o Join(ArgTexts(args, 4), <<",", " ">>) \o <<")">>
  ELSE IF fn = <<"h", "s", "l">>
  THEN <<"h", "s", "l", "(">> \o ArgAt(args, 0) \o <<",", " ">> \o ArgAt(args, 1) \o <<"%", ",", " ">> \o ArgAt(args, 2) \o <<"%", ")">>
  ELSE IF fn = <<"h", "s", "l", "a">>
  THEN <<"h", "s", "l", "a", "(">> \o ArgAt(args, 0) \o <<",", " ">> \o ArgAt(args, 1) \o <<"%", ",", " ">> \o ArgAt(args, 2)
       \o <<"%", ",", " ">> \o ArgAt(args, 3) \o <<")">>
  ELSE IF fn = <<"c", "o", "l", "o", "r", "3">>
  THEN <<"r", "g", "b", "(">> \o Round255Text(ArgNumber(args, 0)) \o <<",", " ">> \o Round255Text(ArgNumber(args, 1))
       \o <<",", " ">> \o Round255Text(ArgNumber(args, 2)) \o <<")">>
  ELSE <<"#", "0", "0", "0", "0", "0", "0">>

-----------------------------------------------------------------------------
(* Flattening and emission *)

\* collectChildren descending only into the children that have declarations
RECURSIVE collectChildrenOfRules(_, _)
collectChildrenOfRules(children, rules) ==
  IF children = <<>> THEN rules
  ELSE LET child == Head(children)
           r1 == IF Len(child.props) > 0
                 THEN collectChildrenOfRules(
                        child.children,
                        Append(rules, [selector |-> child.selector, props |-> child.props]))
                 ELSE rules
       IN  collectChildrenOfRules(Tail(children), r1)

RECURSIVE collectChildren(_, _)
collectChildren(children, rules) ==
  IF children = <<>> THEN rules
  ELSE LET child == Head(children)
           r1 == IF Len(child.props) > 0
                 THEN Append(rules, [selector |-> child.selector, props |-> child.props])
                 ELSE rules
           r2 == IF Len(child.children) > 0 THEN collectChildren(child.children, r1) ELSE r1
       IN  collectChildren(Tail(children), r2)

emitRule(rule) ==
  LET decls == Join([k \in 1..Len(rule.props) |->
                       <<" ", " ">> \o rule.props[k].prop \o <<":", " ">> \o rule.props[k].value \o <<";">>],
                    <<"\n">>)
  IN  rule.selector \o <<" ", "{", "\n">> \o decls \o <<"\n", "}">>

emit(rules) == Join([k \in 1..Len(rules) |-> emitRule(rules[k])], <<"\n", "\n">>)

\* compileLuaCSS suppressing the stylesheet on any diagnostic
compileResultStrict(rules, errs) ==
  IF Len(errs) > 0
  THEN [css |-> Null, errors |-> errs]
  ELSE [css |-> emit(rules), errors |-> errs]

\* the value compileLuaCSS returns for the parser's rules and errors
compileResult(rules, errs) ==
  IF Len(errs) > 0 /\ Len(rules) = 0
  THEN [css |-> Null, errors |-> errs]
  ELSE [css |-> emit(rules), errors |-> errs]

-----------------------------------------------------------------------------
(* Parser: the call stack.  Each frame is one active call:                   *)
(*   parse               [fn, rules, selector]                               *)
(*   parseBlock          [fn, sel, props, children, key, csel, open]         *)
(*   parseFunctionBlock  [fn, props, key]                                    *)
(*   parseValue          [fn, val, depth, prev]                              *)
(*   parseColor          [fn, cfn, args]                                     *)
(* key and csel hold the caller's locals across a call; open is the position *)
(* the call was entered at.                                                  *)

Top == stack[Len(stack)]

Caller == stack[Len(stack) - 1]

\* the stack with its top frames replaced: n frames dropped, frames pushed
Restack(n, frames) == SubSeq(stack, 1, Len(stack) - n) \o frames

Parsing(fn) == pc = "parse" /\ stack # <<>> /\ Top.fn = fn

Step(c, stk, ev) ==
  /\ pos' = c.pos
  /\ errors' = c.errors
  /\ stack' = stk
  /\ event' = ev
  /\ UNCHANGED <<pc, src, i, tokens, spans, toks, result, call>>

Iter(name) == [act |-> name, kind |-> "iteration"]

\* new Parser(src) and the call of parse(), once tokenize has returned
ParserNew ==
  /\ pc = "tokenize" /\ i >= Len(src)
  /\ pc' = "parse"
  /\ toks' = SelectSeq(tokens, LAMBDA t : t.t # TOKEN.WS /\ t.t # TOKEN.COMMENT)
  /\ pos' = 0
  /\ errors' = <<>>
  /\ stack' = <<[fn |-> "parse", rules |-> <<>>, selector |-> <<>>]>>
  /\ event' = [act |-> "Parser", kind |-> "call"]
  /\ UNCHANGED <<src, i, tokens, spans, result, call>>

\* the frame of parseBlock(sel) entered at c, and the cursor after its expect('{')
BlockFrame(sel, c) ==
  [fn |-> "block", sel |-> sel, props |-> <<>>, children |-> <<>>,
   key |-> <<>>, csel |-> <<>>, open |-> c.pos]

\* the top of parse's loop: the selector read, the cursor after it, and whether
\* the token began a selector
ParseSelector(c) ==
  LET t == Peek(c.pos)
  IN  IF t.t = TOKEN.IDENT THEN [c |-> eat(c), selector |-> t.v, ok |-> TRUE]
      ELSE IF t.v = <<"[">>
      THEN LET c1 == eat(c)
               str == Peek(c1.pos).t = TOKEN.STRING
           IN  [c |-> expect(IF str THEN eat(c1) ELSE c1, <<"]">>),
                selector |-> IF str THEN Peek(c1.pos).v ELSE <<>>, ok |-> TRUE]
      ELSE [c |-> eat(c), selector |-> <<>>, ok |-> FALSE]

\* parse: one iteration of the loop, up to the call of parseBlock if it makes one
ParseIteration ==
  /\ Parsing("parse") /\ ~eof(pos)
  /\ LET s  == ParseSelector(Cur)
         c1 == s.c
         c2 == eat(c1)
     IN  IF ~s.ok \/ Peek(c1.pos).v # <<"=">> THEN Step(c1, stack, Iter("parse"))
         ELSE IF Peek(c2.pos).v # <<"{">> THEN Step(c2, stack, Iter("parse"))
         ELSE Step(expect(c2, <<"{">>),
                   Restack(1, <<[Top EXCEPT !.selector = s.selector],
                                BlockFrame(s.selector, c2)>>),
                   Iter("parse"))

\* parse: the top-level block has returned; its rule and its children's are pushed
BlockReturnToParse ==
  /\ Parsing("block") /\ (eof(pos) \/ Peek(pos).v = <<"}">>)
  /\ Caller.fn = "parse"
  /\ LET c1 == expect(Cur, <<"}">>)
         r1 == IF Len(Top.props) > 0
               THEN Append(Caller.rules, [selector |-> Caller.selector, props |-> Top.props])
               ELSE Caller.rules
         r2 == collectChildren(Top.children, r1)
     IN  Step(c1, Restack(2, <<[Caller EXCEPT !.rules = r2]>>),
              [act |-> "parseBlock", kind |-> "return", open |-> Top.open,
               end |-> c1.pos, top |-> TRUE,
               node |-> [selector |-> Caller.selector, props |-> Top.props,
                         children |-> Top.children],
               emitted |-> SubSeq(r2, Len(Caller.rules) + 1, Len(r2))])

\* parseBlock: a nested block has returned to the block that called it
BlockReturnToBlock ==
  /\ Parsing("block") /\ (eof(pos) \/ Peek(pos).v = <<"}">>)
  /\ Caller.fn = "block"
  /\ LET c1 == expect(Cur, <<"}">>)
         node == [selector |-> Caller.csel, props |-> Top.props, children |-> Top.children]
     IN  Step(eatIf(c1, <<",">>),
              Restack(2, <<[Caller EXCEPT !.children = Append(@, node)]>>),
              [act |-> "parseBlock", kind |-> "return", open |-> Top.open,
               end |-> c1.pos, top |-> FALSE, node |-> node, emitted |-> <<>>])

\* compileLuaCSS: parse has returned
CompileReturn ==
  /\ Parsing("parse") /\ eof(pos)
  /\ pc' = "done"
  /\ result' = compileResult(Top.rules, errors)
  /\ stack' = <<>>
  /\ event' = [act |-> "parse", kind |-> "return", rules |-> Top.rules]
  /\ UNCHANGED <<src, i, tokens, spans, toks, pos, errors, call>>

\* the caller's frame once the value of its entry is known:
\* if (value !== '') props.push({ prop: key.replace(/_/g, '-'), value })
WithValue(fr, key, value) ==
  IF value # <<>>
  THEN [fr EXCEPT !.props = Append(@, [prop |-> Hyphenate(key), value |-> value])]
  ELSE fr

\* key = <value> in the frame fr of parseBlock or parseFunctionBlock, the cursor
\* c just past the "=": the call of parseValue, up to its return or to the loop
\* of parseValue or parseColor
ValueCall(fr, key, c, name) ==
  LET kind == ValueEntry(c.pos)
      c1 == expect(eat(c), <<".">>)
      fn == IF Peek(c1.pos) = NoTok THEN <<>> ELSE Peek(c1.pos).v
  IN  IF kind = "loop"
      THEN Step(c, Restack(1, <<[fr EXCEPT !.key = key],
                                [fn |-> "value", val |-> <<>>, depth |-> ZeroDepth,
                                 prev |-> NoTok, open |-> c.pos]>>), Iter(name))
      ELSE IF kind = "color"
      THEN Step(expect(eat(c1), <<"(">>),
                Restack(1, <<[fr EXCEPT !.key = key],
                             [fn |-> "color", cfn |-> fn, args |-> <<>>]>>), Iter(name))
      ELSE Step(eatIf(c, <<",">>), Restack(1, <<WithValue(fr, key, <<>>)>>), Iter(name))

InBlock == Parsing("block") /\ ~eof(pos) /\ Peek(pos).v # <<"}">>

\* parseBlock: an entry ["selector"] = { ... }
BlockBracket ==
  /\ InBlock /\ Peek(pos).v = <<"[">>
  /\ LET c1  == eat(Cur)
         str == Peek(c1.pos).t = TOKEN.STRING
         sel == IF str THEN Peek(c1.pos).v ELSE <<>>
         c2  == expect(expect(IF str THEN eat(c1) ELSE c1, <<"]">>), <<"=">>)
         childSel == resolveSelector(Top.sel, sel)
     IN  IF Peek(c2.pos).v = <<"{">>
         THEN Step(expect(c2, <<"{">>),
                   Restack(1, <<[Top EXCEPT !.csel = childSel], BlockFrame(childSel, c2)>>),
                   Iter("parseBlock"))
         ELSE Step(eatIf(c2, <<",">>), stack, Iter("parseBlock"))

\* BlockSkip without its eat()
BlockSkipNoEat ==
  /\ InBlock /\ Peek(pos).v # <<"[">> /\ Peek(pos).t # TOKEN.IDENT
  /\ Step(Cur, stack, Iter("parseBlock"))

\* parseBlock: a token that begins no entry is skipped
BlockSkip ==
  /\ InBlock /\ Peek(pos).v # <<"[">> /\ Peek(pos).t # TOKEN.IDENT
  /\ Step(eat(Cur), stack, Iter("parseBlock"))

BlockKey == InBlock /\ Peek(pos).v # <<"[">> /\ Peek(pos).t = TOKEN.IDENT

\* parseBlock: a key that no "=" follows
BlockKeyOnly ==
  /\ BlockKey /\ Peek(pos + 1).v # <<"=">>
  /\ Step(eatIf(eat(Cur), <<",">>), stack, Iter("parseBlock"))

\* parseBlock: pseudo = function() ... end, up to the loop of parseFunctionBlock
BlockPseudo ==
  /\ BlockKey /\ Peek(pos + 1).v = <<"=">>
  /\ isPseudo(Peek(pos).v) /\ Peek(pos + 2).v = <<"f", "u", "n", "c", "t", "i", "o", "n">>
  /\ LET c == expect(expect(expect(eat(eat(Cur)), <<"f", "u", "n", "c", "t", "i", "o", "n">>), <<"(">>), <<")">>)
     IN  Step(c, Restack(1, <<[Top EXCEPT !.key = Peek(pos).v],
                              [fn |-> "func", props |-> <<>>, key |-> <<>>]>>),
              Iter("parseBlock"))

\* parseBlock: key = { ... }
BlockNested ==
  /\ BlockKey /\ Peek(pos + 1).v = <<"=">>
  /\ ~(isPseudo(Peek(pos).v) /\ Peek(pos + 2).v = <<"f", "u", "n", "c", "t", "i", "o", "n">>)
  /\ Peek(pos + 2).v = <<"{">>
  /\ LET c == eat(eat(Cur))
         childSel == resolveSelector(Top.sel, Hyphenate(Peek(pos).v))
     IN  Step(expect(c, <<"{">>),
              Restack(1, <<[Top EXCEPT !.csel = childSel], BlockFrame(childSel, c)>>),
              Iter("parseBlock"))

\* parseBlock: key = value
BlockProperty ==
  /\ BlockKey /\ Peek(pos + 1).v = <<"=">>
  /\ ~(isPseudo(Peek(pos).v) /\ Peek(pos + 2).v = <<"f", "u", "n", "c", "t", "i", "o", "n">>)
  /\ Peek(pos + 2).v # <<"{">>
  /\ ValueCall(Top, Peek(pos).v, eat(eat(Cur)), "parseBlock")

InFunction == Parsing("func") /\ ~eof(pos) /\ Peek(pos).v # <<"e", "n", "d">>

\* parseFunctionBlock: a token that is no key is skipped
FunctionSkip ==
  /\ InFunction /\ Peek(pos).t # TOKEN.IDENT
  /\ Step(eat(Cur), stack, Iter("parseFunctionBlock"))

\* parseFunctionBlock: a key that no "=" follows
FunctionKeyOnly ==
  /\ InFunction /\ Peek(pos).t = TOKEN.IDENT /\ Peek(pos + 1).v # <<"=">>
  /\ Step(eatIf(eat(Cur), <<",">>), stack, Iter("parseFunctionBlock"))

\* parseFunctionBlock: key = value
FunctionProperty ==
  /\ InFunction /\ Peek(pos).t = TOKEN.IDENT /\ Peek(pos + 1).v = <<"=">>
  /\ ValueCall(Top, Peek(pos).v, eat(eat(Cur)), "parseFunctionBlock")

\* parseFunctionBlock returns to parseBlock, which pushes the pseudo child
FunctionReturn ==
  /\ Parsing("func") /\ (eof(pos) \/ Peek(pos).v = <<"e", "n", "d">>)
  /\ LET c1 == expect(Cur, <<"e", "n", "d">>)
         node == [selector |-> pseudoSelector(Caller.sel, Caller.key),
                  props |-> Top.props, children |-> <<>>]
     IN  Step(eatIf(c1, <<",">>),
              Restack(2, <<[Caller EXCEPT !.children = Append(@, node)]>>),
              [act |-> "parseFunctionBlock", kind |-> "return"])

\* parseValue: one iteration of the general loop
ValueStep ==
  /\ Parsing("value") /\ ~eof(pos) /\ ~shouldStopValue(pos, Top.depth)
  /\ Step(eat(Cur), Restack(1, <<ValueIteration(Top, pos)>>),
          [act |-> "parseValue", kind |-> "iteration", at |-> pos, depth |-> Top.depth])

\* parseValue returns val.trim() to parseBlock or parseFunctionBlock
ValueReturn ==
  /\ Parsing("value") /\ (eof(pos) \/ shouldStopValue(pos, Top.depth))
  /\ Step(eatIf(Cur, <<",">>),
          Restack(2, <<WithValue(Caller, Caller.key, Trim(Top.val))>>),
          [act |-> "parseValue", kind |-> "return", open |-> Top.open, at |-> pos,
           depth |-> Top.depth, value |-> Trim(Top.val)])

\* parseColor: one iteration of the argument loop
ColorStep ==
  /\ Parsing("color") /\ ~eof(pos) /\ Peek(pos).v # <<")">>
  /\ LET t == Peek(pos)
     IN  Step(eat(Cur),
              Restack(1, <<IF t.v = <<",">> THEN Top
                           ELSE [Top EXCEPT !.args = Append(@, ColorArg(t))]>>),
              Iter("parseColor"))

\* parseColor returns through parseValue to parseBlock or parseFunctionBlock
ColorReturn ==
  /\ Parsing("color") /\ (eof(pos) \/ Peek(pos).v = <<")">>)
  /\ LET c1 == expect(Cur, <<")">>)
         c2 == IF Top.cfn \in KnownColor THEN c1
               ELSE [c1 EXCEPT !.errors =
                       Append(@, [msg |-> "Unknown color function", val |-> Top.cfn,
                                  got |-> <<>>, pos |-> c1.pos])]
     IN  Step(eatIf(c2, <<",">>),
              Restack(2, <<WithValue(Caller, Caller.key, ColorValue(Top.cfn, Top.args))>>),
              [act |-> "parseColor", kind |-> "return"])

-----------------------------------------------------------------------------
(* The checked source texts *)

\* pieces of source text put together freely
Lexemes == {<<"a">>, <<"=">>, <<"{">>, <<"}">>, <<",">>, <<"\"", "}", "\"">>}

\* every text made of at most n lexemes
RECURSIVE Texts(_)
Texts(n) ==
  IF n = 0 THEN {<<>>}
  ELSE Texts(n - 1) \cup {t \o l : t \in Texts(n - 1), l \in Lexemes}

\* what the free text follows
Prefixes ==
  {<<>>, <<"a", "=", "{">>, <<"a", "=", "{", "b", "=", "{", "c", "=", "{">>, <<"a", "=", "{", "b", "=", "1">>, <<"a", "=", "{", "b", "=", "(">>, <<"a", "=", "{", "h", "o", "v", "e", "r", "=", "f", "u", "n", "c", "t", "i", "o", "n", "(", ")">>,
   <<"a", "=", "{", "b", "=", "c", "o", "l", "o", "r", ".", "r", "g", "b", "(">>, <<"a", "=", "{", "[", "\"", "&", "x", "\"", "]", "=", "{">>}

RawChars == {"\"", "\\", "-", "0", "x", "F", " ", "\n"}

\* every text of at most n raw characters
RECURSIVE RawTexts(_)
RawTexts(n) ==
  IF n = 0 THEN {<<>>}
  ELSE RawTexts(n - 1) \cup {t \o <<c>> : t \in RawTexts(n - 1), c \in RawChars}

\* every text of at most n of the characters cs
RECURSIVE TextsOf(_, _)
TextsOf(cs, n) ==
  IF n = 0 THEN {<<>>}
  ELSE TextsOf(cs, n - 1) \cup {t \o <<c>> : t \in TextsOf(cs, n - 1), c \in cs}

\* a = { b = 0x<digits> }
HexProgram(h) == <<"a", "=", "{", "b", "=", "0", "x">> \o h \o <<"}">>

HexTexts == TextsOf({"A", "b", "1"}, MaxHex) \cup {<<"A", "1", "B", "2", "C", "3">>, <<"F", "F", "F">>, <<"0", "0", "f", "f", "0", "0", "f", "f">>}

\* a = { k = "<s>", c = 1 }
StringProgram(s) == <<"a", "=", "{", "k", "=", "\"">> \o s \o <<"\"", ",", "c", "=", "1", "}">>

StringContents == {<<"x">>, <<"2", "r", "e", "m">>, <<",">>, <<"}">>, <<"{">>, <<"[">>, <<"=">>, <<"e", "n", "d">>, <<"a", " ", "b">>}

Samples ==
  {<<"b", "o", "d", "y", " ", "=", " ", "{", " ", "o", "p", "a", "c", "i", "t", "y", " ", "=", " ", "0", ".", "8", ",", " ", "b", "a", "c", "k", "g", "r", "o", "u", "n", "d", " ", "=", " ", "c", "o", "l", "o", "r", ".", "h", "e", "x", "(", "\"", "#", "f", "f", "f", "\"", ")", " ", "}">>,
   <<"h", "1", "=", "{", "f", "o", "n", "t", "_", "s", "i", "z", "e", "=", "\"", "2", "r", "e", "m", "\"", ",", "h", "o", "v", "e", "r", "=", "f", "u", "n", "c", "t", "i", "o", "n", "(", ")", " ", "o", "p", "a", "c", "i", "t", "y", "=", "0", ".", "8", " ", "c", "o", "l", "o", "r", "=", "0", "x", "a", "7", "8", "b", "f", "a", " ", "e", "n", "d", ",", "s", "p", "a", "n", "=", "{", "c", "o", "l", "o", "r", "=", "r", "e", "d", "}", ",", "}">>,
   <<"[", "\"", ".", "c", "a", "r", "d", "\"", "]", "=", "{", "p", "a", "d", "d", "i", "n", "g", "=", "\"", "2", "4", "p", "x", "\"", ",", "[", "\"", "&", ":", "n", "t", "h", "-", "c", "h", "i", "l", "d", "(", "2", ")", "\"", "]", "=", "{", "b", "o", "r", "d", "e", "r", "=", "\"", "2", "p", "x", " ", "s", "o", "l", "i", "d", "\"", "}", ",", "}">>,
   <<"a", "=", "{", "b", "=", "{", "c", "=", "{", "d", "=", "1", "}", "}", ",", "e", "=", "{", "}", ",", "f", "=", "2", "}">>,
   <<"a", "=", "{", "b", "e", "f", "o", "r", "e", "=", "f", "u", "n", "c", "t", "i", "o", "n", "(", ")", " ", "c", "o", "n", "t", "e", "n", "t", "=", "\"", "x", "\"", " ", "e", "n", "d", ",", "w", "i", "d", "t", "h", "=", "c", "a", "l", "c", "(", "1", "p", "x", "+", "2", "p", "x", ")", ",", "m", "a", "r", "g", "i", "n", "=", "-", "1", " ", "a", "u", "t", "o", "}">>,
   <<"a", "=", "{", "b", "=", "c", "o", "l", "o", "r", ".", "c", "o", "l", "o", "r", "3", "(", "1", ",", "0", ",", "0", ".", "5", ")", ",", "c", "=", "c", "o", "l", "o", "r", ".", "h", "s", "l", "(", "0", ",", "1", "0", "0", ",", "6", "7", ")", ",", "d", "=", "c", "o", "l", "o", "r", ".", "n", "o", "p", "e", "(", "1", ")", ",", "e", "=", "c", "o", "l", "o", "r", ".", "r", "g", "b", "a", "(", "1", ",", "2", ",", "3", ",", "0", ".", "5", ")", "}">>,
   <<"-", "-", " ", "n", "o", "t", "e", "\n", "a", " ", "=", " ", "{", " ", "b", " ", "=", " ", "1", " ", "}", " ", "-", "-", " ", "e", "n", "d", "\n">>}

Inputs ==
  {p \o t : p \in Prefixes, t \in Texts(MaxFree)}
    \cup RawTexts(MaxRaw)
    \cup {HexProgram(h) : h \in HexTexts}
    \cup {StringProgram(s) : s \in StringContents}
    \cup Samples

-----------------------------------------------------------------------------
(* compileLuaCSS(src) *)

NoCall == [fn |-> "none"]

Init ==
  /\ pc = "tokenize"
  /\ src \in Inputs
  /\ i = 0
  /\ tokens = <<>>
  /\ spans = <<>>
  /\ toks = <<>>
  /\ pos = 0
  /\ errors = <<>>
  /\ stack = <<>>
  /\ result = [css |-> Null, errors |-> <<>>]
  /\ event = [act |-> "compileLuaCSS", kind |-> "call"]
  /\ call = NoCall

Next ==
  \/ TokComment \/ TokWhitespace \/ TokHex \/ TokString \/ TokNumber \/ TokIdent \/ TokPunct
  \/ ParserNew \/ ParseIteration \/ CompileReturn
  \/ BlockBracket \/ BlockSkip \/ BlockKeyOnly \/ BlockPseudo \/ BlockNested \/ BlockProperty
  \/ BlockReturnToParse \/ BlockReturnToBlock
  \/ FunctionSkip \/ FunctionKeyOnly \/ FunctionProperty \/ FunctionReturn
  \/ ValueStep \/ ValueReturn \/ ColorStep \/ ColorReturn

Spec == Init /\ [][Next]_vars

FairSpec == Spec /\ WF_vars(Next)

-----------------------------------------------------------------------------
(* The selector functions on their own, as parseBlock calls them *)

SelParents == TextsOf({"a", "$", "&", "'"}, MaxSel)

SelChildren == TextsOf({"&", ":", "b"}, MaxSel + 1)

PseudoParents == {<<"a">>, <<"l", "i">>, <<".", "x", " ", "y">>}

CheckedKeys == PSEUDO_CLASS \cup PSEUDO_ELEMENT \cup InheritedNames \cup {<<"a">>, <<"f", "o", "n", "t", "_", "s", "i", "z", "e">>}

\* the result of a call not made yet
Pending == <<"(pending)">>

SelCalls ==
  {[fn |-> "resolveSelector", parent |-> parent, child |-> child, out |-> Pending] :
     parent \in SelParents, child \in SelChildren}
    \cup {[fn |-> "pseudoSelector", parent |-> parent, key |-> key,
           pseudo |-> FALSE, out |-> Pending] :
            parent \in PseudoParents, key \in CheckedKeys}

InitSel ==
  /\ pc = "sel"
  /\ src = <<>>
  /\ i = 0
  /\ tokens = <<>>
  /\ spans = <<>>
  /\ toks = <<>>
  /\ pos = 0
  /\ errors = <<>>
  /\ stack = <<>>
  /\ result = [css |-> Null, errors |-> <<>>]
  /\ event = [act |-> "none", kind |-> "none"]
  /\ call \in SelCalls

\* resolveSelector(parent, child)
ResolveCall ==
  /\ pc = "sel" /\ call.fn = "resolveSelector" /\ call.out = Pending
  /\ call' = [call EXCEPT !.out = resolveSelector(call.parent, call.child)]
  /\ UNCHANGED <<pc, src, i, tokens, spans, toks, pos, errors, stack, result, event>>

\* isPseudo(key), and pseudoSelector(parent, key) where parseBlock calls it
PseudoCall ==
  /\ pc = "sel" /\ call.fn = "pseudoSelector" /\ call.out = Pending
  /\ call' = [call EXCEPT !.pseudo = isPseudo(call.key),
                          !.out = IF isPseudo(call.key)
                                  THEN pseudoSelector(call.parent, call.key)
                                  ELSE Null]
  /\ UNCHANGED <<pc, src, i, tokens, spans, toks, pos, errors, stack, result, event>>

NextSel == ResolveCall \/ PseudoCall

SpecSel == InitSel /\ [][NextSel]_vars

-----------------------------------------------------------------------------
(* Properties *)

IsPunct(t, c) == t.t = TOKEN.PUNCT /\ t.v = <<c>>

IsIdent(t, v) == t.t = TOKEN.IDENT /\ t.v = v

Done == pc = "done"

\* the stylesheet text of a rule list: each rule as "selector {", its
\* declarations "  prop: value;" one per line, "}", rules one blank line apart
RECURSIVE DeclarationLines(_)
DeclarationLines(props) ==
  IF props = <<>> THEN <<>>
  ELSE <<" ", " ">> \o Head(props).prop \o <<":", " ">> \o Head(props).value \o <<";">>
       \o (IF Len(props) > 1 THEN <<"\n">> ELSE <<>>) \o DeclarationLines(Tail(props))

RECURSIVE Stylesheet(_)
Stylesheet(rules) ==
  IF rules = <<>> THEN <<>>
  ELSE Head(rules).selector \o <<" ", "{", "\n">> \o DeclarationLines(Head(rules).props) \o <<"\n", "}">>
       \o (IF Len(rules) > 1 THEN <<"\n", "\n">> ELSE <<>>) \o Stylesheet(Tail(rules))

\* C1: compileLuaCSS returns one of three outcomes decided by the parse: with
\* at least one rule, the rendered stylesheet together with the diagnostics
\* (empty or not); with no rule and at least one diagnostic, null and the
\* non-empty diagnostics; with no rule and no diagnostic, the empty string.
C1_CompileOutcome ==
  Done =>
    LET rules == event.rules
    IN  /\ result.errors = errors
        /\ Len(rules) >= 1 =>
             result.css # Null /\ result.css # <<>> /\ result.css = Stylesheet(rules)
        /\ (Len(rules) = 0 /\ Len(errors) >= 1) => (result.css = Null /\ result.errors # <<>>)
        /\ (Len(rules) = 0 /\ Len(errors) = 0) => result.css = <<>>

\* a compilation that produced rules and diagnostics returned both
C1_Witness ==
  Done /\ Len(event.rules) >= 1 /\ Len(errors) >= 1 /\ result.css # Null
    /\ result.errors # <<>>

\* a step of the tokenizer or parser keeps the scan moving: a loop iteration
\* advances its position, no step moves the token position back, a return
\* leaves a call, and a call of parseBlock has consumed the "{" it was entered at
Advances ==
  /\ i' >= i
  /\ (pc = "parse" => pos' >= pos)
  /\ (event'.kind = "iteration" /\ event'.act = "tokenize") => i' > i
  /\ (event'.kind = "iteration" /\ event'.act # "tokenize") => pos' > pos
  /\ event'.kind = "return" => Len(stack') < Len(stack)
  /\ (Len(stack') > Len(stack) /\ stack'[Len(stack')].fn = "block") =>
       LET open == stack'[Len(stack')].open
       IN  open < Len(toks) /\ toks[open + 1].v = <<"{">> /\ pos' = open + 1

\* C2: tokenizing and parsing terminate on every input: every loop iteration
\* of tokenize, parse, parseBlock, parseFunctionBlock, parseValue and
\* parseColor advances the scan position by at least one (a loop is left at
\* end-of-input or at its terminator), each parseBlock call consumes its
\* opening "{" first, the token position never decreases, and compileLuaCSS
\* returns.
C2_Terminates ==
  /\ [][Advances]_vars
  /\ [](pos <= Len(toks) + 1 /\ i <= Len(src) + 2)
  /\ <>Done

\* a malformed input ended inside a nested block, with diagnostics, and
\* compileLuaCSS returned
C2_Witness ==
  Done /\ Len(errors) >= 2 /\ pos >= Len(toks) /\ Len(toks) >= 6
    /\ \E k \in 1..Len(toks) : toks[k].t = TOKEN.STRING

Lower(c) ==
  CASE c = "A" -> "a" [] c = "B" -> "b" [] c = "C" -> "c" [] c = "D" -> "d"
    [] c = "E" -> "e" [] c = "F" -> "f" [] OTHER -> c

LowerCase(s) == [k \in 1..Len(s) |-> Lower(s[k])]

\* C3: a bare hex literal 0x<digits> used as a property value renders as "#"
\* and the digits lower-cased and left-padded with "0" to 6 characters.
C3_HexLowerCased ==
  \A h \in HexTexts :
    (Done /\ src = HexProgram(h)) =>
      event.rules = <<[selector |-> <<"a">>,
                       props |-> <<[prop |-> <<"b">>,
                                    value |-> <<"#">> \o PadStart(LowerCase(h), 6, "0")]>>]>>

\* C4: key = "s" in a block, for any content s of the string literal (also
\* a punctuation character or a keyword), adds exactly one declaration, the
\* hyphenated key with s in double quotes, and leaves the block structure as
\* it is: in a = { k = "s", c = 1 } the block holds k and c and nothing else.
C4_StringIsOnlyAValue ==
  \A s \in StringContents :
    (Done /\ src = StringProgram(s)) =>
      /\ event.rules = <<[selector |-> <<"a">>,
                          props |-> <<[prop |-> <<"k">>, value |-> <<"\"">> \o s \o <<"\"">>],
                                      [prop |-> <<"c">>, value |-> <<"1">>]>>]>>
      /\ errors = <<>>

\* child with every "&" replaced by the text of parent
RECURSIVE ReplaceLiterally(_, _)
ReplaceLiterally(child, parent) ==
  IF child = <<>> THEN <<>>
  ELSE (IF Head(child) = "&" THEN parent ELSE <<Head(child)>>)
       \o ReplaceLiterally(Tail(child), parent)

\* C5: resolveSelector(parent, child) is child with every "&" replaced by
\* parent verbatim if child contains "&", parent followed by child if child
\* starts with ":", and parent, a space, child otherwise.
C5_ResolveSelector ==
  (call.fn = "resolveSelector" /\ call.out # Pending) =>
    call.out = IF \E k \in 1..Len(call.child) : call.child[k] = "&"
               THEN ReplaceLiterally(call.child, call.parent)
               ELSE IF call.child # <<>> /\ call.child[1] = ":"
               THEN call.parent \o call.child
               ELSE call.parent \o <<" ">> \o call.child

\* the nodes of a tree in depth-first pre-order
RECURSIVE PreOrder(_)
RECURSIVE PreOrderAll(_)
PreOrder(node) == <<node>> \o PreOrderAll(node.children)
PreOrderAll(nodes) ==
  IF nodes = <<>> THEN <<>> ELSE PreOrder(Head(nodes)) \o PreOrderAll(Tail(nodes))

RuleOf(node) == [selector |-> node.selector, props |-> node.props]

\* C6: for a parsed top-level block, flattening emits exactly the nodes with
\* a non-empty declaration list, each once, in depth-first pre-order, the
\* top-level selector's own rule first; a node without declarations emits no
\* rule and its descendants are still emitted.
C6_FlattenPreOrder ==
  (event.act = "parseBlock" /\ event.kind = "return" /\ event.top) =>
    LET nodes == SelectSeq(PreOrder(event.node), LAMBDA n : n.props # <<>>)
    IN  event.emitted = [k \in 1..Len(nodes) |-> RuleOf(nodes[k])]

\* a top-level block with a declaration-less child whose own child has
\* declarations has been flattened, and that grandchild's rule is emitted
C6_Witness ==
  /\ event.act = "parseBlock" /\ event.kind = "return" /\ event.top
  /\ \E a \in 1..Len(event.node.children) :
       LET child == event.node.children[a]
       IN  /\ child.props = <<>>
           /\ \E b \in 1..Len(child.children) :
                /\ child.children[b].props # <<>>
                /\ \E r \in 1..Len(event.emitted) :
                     event.emitted[r] = RuleOf(child.children[b])

CharsOf(s) == {s[k] : k \in 1..Len(s)}

\* C7: the character ranges of successive tokens are non-empty, contiguous
\* and in order, lie within the input and, once tokenize has returned, cover
\* it; a token's text is made of characters of the input; a punctuation
\* token is one character.
C7_TokensCoverInput ==
  /\ \A k \in 1..Len(spans) :
       /\ spans[k].from < spans[k].to
       /\ spans[k].to <= Len(src)
       /\ spans[k].from = IF k = 1 THEN 0 ELSE spans[k - 1].to
       /\ CharsOf(tokens[k].v) \subseteq CharsOf(src)
       /\ tokens[k].t = TOKEN.PUNCT => spans[k].to = spans[k].from + 1
  /\ (pc \in {"parse", "done"} /\ src # <<>>) =>
       (spans # <<>> /\ spans[Len(spans)].to = Len(src))

SpecPseudoElements ==
  {<<"b", "e", "f", "o", "r", "e">>, <<"a", "f", "t", "e", "r">>, <<"f", "i", "r", "s", "t", "_", "l", "i", "n", "e">>, <<"f", "i", "r", "s", "t", "_", "l", "e", "t", "t", "e", "r">>, <<"s", "e", "l", "e", "c", "t", "i", "o", "n">>, <<"p", "l", "a", "c", "e", "h", "o", "l", "d", "e", "r">>}

\* C8: pseudoSelector(parent, key) is parent, then "::" if key is one of
\* before, after, first_line, first_letter, selection, placeholder and ":"
\* if not, then the name: key with its underscores hyphenated when the name
\* map holds key, key itself when it does not; a key is pseudo exactly when
\* it is in the pseudo-class set or the pseudo-element set.
C8_PseudoSelector ==
  (call.fn = "pseudoSelector" /\ call.out # Pending) =>
    /\ call.pseudo = (call.key \in PSEUDO_CLASS \cup SpecPseudoElements)
    /\ call.pseudo =>
         call.out = call.parent
                      \o (IF call.key \in SpecPseudoElements THEN <<":", ":">> ELSE <<":">>)
                      \o (IF \E e \in PSEUDO_NAME_MAP : e[1] = call.key
                          THEN Hyphenate(call.key) ELSE call.key)

\* placeholder, in both sets, got "::"
C8_Witness ==
  /\ call.fn = "pseudoSelector" /\ call.key = <<"p", "l", "a", "c", "e", "h", "o", "l", "d", "e", "r">> /\ call.parent = <<"l", "i">>
  /\ call.out = <<"l", "i", ":", ":", "p", "l", "a", "c", "e", "h", "o", "l", "d", "e", "r">>

\* the position of the "}" that closes a block whose body starts at p, the
\* braces in between balanced; -1 if the input ends first
RECURSIVE MatchingBrace(_, _)
MatchingBrace(p, depth) ==
  IF p >= Len(toks) THEN 0 - 1
  ELSE IF IsPunct(toks[p + 1], "{") THEN MatchingBrace(p + 1, depth + 1)
  ELSE IF IsPunct(toks[p + 1], "}")
  THEN (IF depth = 0 THEN p ELSE MatchingBrace(p + 1, depth - 1))
  ELSE MatchingBrace(p + 1, depth)

\* programs in the surface syntax, every brace of which delimits a block
WellFormedPrograms ==
  Samples \cup {StringProgram(s) : s \in StringContents} \cup {HexProgram(h) : h \in HexTexts}

\* C9: parseBlock, entered at "{", returns with the token position just past
\* the "}" matching that "{" and nothing beyond it consumed; if the input
\* ends before that "}", a diagnostic for the missing "}" is recorded.
\* Stated for the well-formed programs among the inputs.
C9_BlockEndsAtMatchingBrace ==
  (event.act = "parseBlock" /\ event.kind = "return" /\ src \in WellFormedPrograms) =>
    LET m == MatchingBrace(event.open + 1, 0)
    IN  IF m >= 0 THEN event.end = m + 1
        ELSE /\ errors # <<>>
             /\ errors[Len(errors)].msg = "Expected"
             /\ errors[Len(errors)].val = <<"}">>
             /\ errors[Len(errors)].got = <<"E", "O", "F">>

\* the token at p is one that ends a value: "," or "}", end, or an
\* identifier that "=" follows
EndsValue(p) ==
  \/ IsPunct(Peek(p), ",")
  \/ IsPunct(Peek(p), "}")
  \/ IsIdent(Peek(p), <<"e", "n", "d">>)
  \/ (Peek(p).t = TOKEN.IDENT /\ IsPunct(Peek(p + 1), "="))

\* C10: in parseValue's general loop the depth counters are never negative;
\* the loop stops exactly at end-of-input or at the first token that, with
\* the three counters at zero, is "," or "}" or end or an identifier followed
\* by "="; every other token is consumed into the value.
C10_ValueStopsAtTerminator ==
  /\ \A k \in 1..Len(stack) :
       stack[k].fn = "value" =>
         stack[k].depth.paren >= 0 /\ stack[k].depth.brack >= 0 /\ stack[k].depth.brace >= 0
  /\ (event.act = "parseValue" /\ event.kind = "return") =>
       (eof(event.at) \/ (event.depth = ZeroDepth /\ EndsValue(event.at)))
  /\ (event.act = "parseValue" /\ event.kind = "iteration") =>
       ~(event.depth = ZeroDepth /\ EndsValue(event.at))

=============================================================================
